---------------------------- MODULE Spec2Model ----------------------------
(***************************************************************************)
(* State-machine model of scripts/stem-split-melodies.py: one run of the   *)
(* 6-stem melody pipeline (primary pass, guitar refinement, optional       *)
(* guitar cleanup, completeness-fill, success token).                      *)
(*                                                                         *)
(* The separation engine (demucs) and the file system are the environment: *)
(* every engine call draws its exit status and its output tree from small  *)
(* sets, and every _write_wav_samples call draws its outcome (written,     *)
(* open refused, I/O error after the open truncated the file).             *)
(* Sample arithmetic is exact integer arithmetic; Python's round() is      *)
(* round-half-to-even.                                                     *)
(***************************************************************************)
EXTENDS Integers, Sequences, FiniteSets, TLC

VARIABLES
    pc,             \* position of main(): see PcValues
    files,          \* melodies_dir: role -> file (NoFile when absent)
    tree,           \* output tree of the engine call being processed
    result,         \* returncode of the engine call being processed
    tmpDirs,        \* directories on disk that engine calls were given for
                    \*   their output: live tempfile.TemporaryDirectory()
                    \*   directories, and in stem-split.py the directory the
                    \*   engine creates under output_dir
    stdout,         \* number of "ok" tokens printed
    stderr,         \* sequence of message tags printed to sys.stderr
    exitCode,       \* process exit status, read when pc = "exited"
    cleanup_enabled,\* line 156, meaningful once the environment is read
    alpha,          \* lines 157-160, in tenths or NaN, meaningful once read
    engineCalls,    \* history: sequence of the inputs of subprocess.run calls
    refineOutcome,  \* history: branch taken by the refinement stage
    cleanupOutcome, \* history: branch taken by the cleanup stage
    refineIO,       \* history: signals loaded and computed at lines 139-148,
                    \*   kept until line 156
    cleanupIO,      \* history: signals loaded and computed at lines 187-199,
                    \*   kept until line 204
    writeArgs,      \* history: sample lists handed to _write_wav_samples by
                    \*   the stage that ended last
    primarySnap,    \* history: melodies_dir right after the primary copy,
                    \*   kept until line 156
    fillDone,       \* history: the completeness-fill loop has run
    input,          \* stem-split-vocals.py: the WAV at input_path
    padded,         \* stem-split-vocals.py: the file tmp/padded.wav
    to_process,     \* stem-split-vocals.py: the path given to separate()
    separated,      \* stem-split-vocals.py: what separate() returned, and
                    \*   for each name whether sep_out holds such a file
    output_files,   \* stem-split-vocals.py: line 93
    lead_src,       \* stem-split-vocals.py: lines 98-120
    backing_src,    \* stem-split-vocals.py: lines 99-120
    heuristic       \* history: lead_src and backing_src after line 114

vars == <<pc, files, tree, result, tmpDirs, stdout, stderr, exitCode,
          cleanup_enabled, alpha, engineCalls, refineOutcome, cleanupOutcome,
          refineIO, cleanupIO, writeArgs, primarySnap, fillDone,
          input, padded, to_process, separated, output_files, lead_src,
          backing_src, heuristic>>

\* the variables only stem-split-vocals.py uses
vocalsVars == <<input, padded, to_process, separated, output_files, lead_src,
                backing_src, heuristic>>

---------------------------------------------------------------------------
(* Bounds of the model *)

\* longest sample list of a WAV file the environment produces
MaxLen == 2
\* largest sample rate of the WAV given to stem-split-vocals.py (frames per
\* second; the durations the model needs fit in a few frames)
MaxRate == 2
\* longest list separate() returns
MaxOutputs == 2

---------------------------------------------------------------------------
(* Program constants *)

Int16Max == 32767
Int16Min == -32768
\* default of DEMUCS_GUITAR_CLEANUP_ALPHA, in tenths (0.6)
DefaultAlphaTenths == 6
\* stem-split-vocals.py, line 16
MIN_DURATION_SEC == 10

melody_stems == <<"guitar", "piano", "other">>
Roles == {"guitar", "piano", "other"}

\* float("nan"), kept apart from the alphas that are a number of tenths
NaN == 1000000

---------------------------------------------------------------------------
(* Files *)

NoFile == [kind |-> "none", nch |-> 0, sr |-> 0, samples |-> <<>>]
\* a readable 16-bit PCM WAV
Pcm16(fmt, s) == [kind |-> "pcm16", nch |-> fmt[1], sr |-> fmt[2], samples |-> s]
\* a readable WAV whose sample width is not 2
Pcm8File == [kind |-> "pcm8", nch |-> 1, sr |-> 44100, samples |-> <<>>]
\* a non-empty file wave.open cannot parse
CorruptFile == [kind |-> "corrupt", nch |-> 0, sr |-> 0, samples |-> <<>>]
\* a zero-byte file
EmptyFile == [kind |-> "empty", nch |-> 0, sr |-> 0, samples |-> <<>>]

isfile(f) == f.kind # "none"
NonEmpty(f) == f.kind \notin {"none", "empty"}

Formats == {<<1, 44100>>, <<2, 44100>>, <<1, 48000>>}
FormatOf(f) == <<f.nch, f.sr>>

SeqsUpTo(S, n) == UNION {[1..k -> S] : k \in 0..n}

---------------------------------------------------------------------------
(* Signal arithmetic *)

Abs(x) == IF x < 0 THEN -x ELSE x
Min2(a, b) == IF a <= b THEN a ELSE b
Max2(a, b) == IF a >= b THEN a ELSE b

\* max(-32768, min(32767, x))
Clamp16(x) == Max2(Int16Min, Min2(Int16Max, x))

\* int(round(num / den)) for den > 0: Python rounds halves to the even integer
RoundHalfEven(num, den) ==
    LET q == num \div den
        r == num % den
    IN  IF 2 * r < den THEN q
        ELSE IF 2 * r > den THEN q + 1
        ELSE IF q % 2 = 0 THEN q ELSE q + 1

RECURSIVE MaxAbs(_)
\* max(abs(s) for s in samples), 0 for the empty list
MaxAbs(s) == IF Len(s) = 0 THEN 0 ELSE Max2(Abs(Head(s)), MaxAbs(Tail(s)))

InRange16(s) == \A i \in 1..Len(s) : s[i] >= Int16Min /\ s[i] <= Int16Max

\* s[:n]
Take(s, n) == SubSeq(s, 1, Min2(n, Len(s)))

RECURSIVE MaxSigned(_)
MaxSigned(s) ==
    IF Len(s) = 1 THEN Head(s) ELSE Max2(Head(s), MaxSigned(Tail(s)))

\* _normalize_16bit with max(samples) for max(abs(s) for s in samples)
normalize_16bitSigned(samples) ==
    IF Len(samples) = 0 THEN samples
    ELSE LET max_abs == MaxSigned(samples)
         IN  IF max_abs <= 0 THEN samples
             ELSE [i \in 1..Len(samples) |->
                     Clamp16(RoundHalfEven(samples[i] * Int16Max, max_abs))]

\* _normalize_16bit(samples)
normalize_16bit(samples) ==
    IF Len(samples) = 0 THEN samples
    ELSE LET max_abs == MaxAbs(samples)
         IN  IF max_abs <= 0 THEN samples
             ELSE [i \in 1..Len(samples) |->
                     Clamp16(RoundHalfEven(samples[i] * Int16Max, max_abs))]

\* [a + b for a, b in zip(x, y)]
ZipAdd(x, y) == [i \in 1..Min2(Len(x), Len(y)) |-> x[i] + y[i]]
\* [a - b for a, b in zip(x, y)]
ZipSub(x, y) == [i \in 1..Min2(Len(x), Len(y)) |-> x[i] - y[i]]

\* lines 143-148 with the sum and the difference saturated before the scaling
RefineCombineClamped(g1, o1, g2) ==
    LET min_len == Min2(Len(g1), Min2(Len(o1), Len(g2)))
        a == Take(g1, min_len)
        b == Take(o1, min_len)
        c == Take(g2, min_len)
        sat(s) == [i \in 1..Len(s) |-> Clamp16(s[i])]
    IN  [guitar_sum |-> sat(ZipAdd(a, c)),
         other_diff |-> sat(ZipSub(b, c)),
         guitar_new |-> normalize_16bit(sat(ZipAdd(a, c))),
         other_new  |-> normalize_16bit(sat(ZipSub(b, c)))]

\* lines 143-148 with the raw sum and difference written as they are
RefineCombineRaw(g1, o1, g2) ==
    LET min_len == Min2(Len(g1), Min2(Len(o1), Len(g2)))
        a == Take(g1, min_len)
        b == Take(o1, min_len)
        c == Take(g2, min_len)
    IN  [guitar_sum |-> ZipAdd(a, c),
         other_diff |-> ZipSub(b, c),
         guitar_new |-> ZipAdd(a, c),
         other_new  |-> ZipSub(b, c)]

\* lines 147-148 without the cut to the common length of lines 143-146
RefineCombinePairwise(g1, o1, g2) ==
    [guitar_sum |-> ZipAdd(g1, g2),
     other_diff |-> ZipSub(o1, g2),
     guitar_new |-> normalize_16bit(ZipAdd(g1, g2)),
     other_new  |-> normalize_16bit(ZipSub(o1, g2))]

\* lines 143-148: the two lists the refinement stage writes
RefineCombine(g1, o1, g2) ==
    LET min_len == Min2(Len(g1), Min2(Len(o1), Len(g2)))
        a == Take(g1, min_len)
        b == Take(o1, min_len)
        c == Take(g2, min_len)
    IN  [guitar_sum |-> ZipAdd(a, c),
         other_diff |-> ZipSub(b, c),
         guitar_new |-> normalize_16bit(ZipAdd(a, c)),
         other_new  |-> normalize_16bit(ZipSub(b, c))]

\* round(a - alpha * (b + c)) raises for a NaN alpha
CleanupRaises(g, p, o, al) ==
    al = NaN /\ Min2(Len(g), Min2(Len(p), Len(o))) > 0

\* lines 190-199 with only the leaked piano subtracted
CleanupCombineOneLeak(g_orig, p_extra, o_extra, al) ==
    LET min_len == Min2(Len(g_orig), Min2(Len(p_extra), Len(o_extra)))
        cleaned == [i \in 1..min_len |->
                      Clamp16(RoundHalfEven(10 * g_orig[i] - al * p_extra[i], 10))]
    IN  [cleaned |-> cleaned, guitar_final |-> normalize_16bit(cleaned)]

\* lines 190-199: alpha is al / 10
CleanupCombine(g_orig, p_extra, o_extra, al) ==
    LET min_len == Min2(Len(g_orig), Min2(Len(p_extra), Len(o_extra)))
        cleaned == [i \in 1..min_len |->
                      Clamp16(RoundHalfEven(
                          10 * g_orig[i] - al * (p_extra[i] + o_extra[i]), 10))]
    IN  [cleaned |-> cleaned, guitar_final |-> normalize_16bit(cleaned)]

---------------------------------------------------------------------------
(* The environment: engine output trees, environment variables, writes *)

\* The signals the engine produces are prefixes of a few periodic patterns:
\* Pattern(name, i) is sample i of the pattern
Pattern(name, i) ==
    CASE name = "soft"      -> 1000
      [] name = "loud_soft" -> IF i % 2 = 1 THEN 30000 ELSE 1000
      [] name = "neg_peak"  -> IF i % 2 = 1 THEN -32768 ELSE 1000
      [] name = "leak_p"    -> 100
      [] name = "leak_o"    -> 50
Signal(name, k) == [i \in 1..k |-> Pattern(name, i)]
Signals(names) == {Signal(nm, k) : nm \in names, k \in 0..MaxLen}

GuitarPatterns == {"soft", "loud_soft"}
OtherPatterns == {"loud_soft", "neg_peak"}
ExtractPatterns == {"soft", "loud_soft"}

Mono44 == <<1, 44100>>
PianoFile == Pcm16(Mono44, <<7>>)
BadFiles == {Pcm8File, CorruptFile}
\* every signal in the usual format, and one signal in every format
WavFiles(names) ==
    {Pcm16(Mono44, s) : s \in Signals(names)} \cup
    {Pcm16(f, Signal("soft", 1)) : f \in Formats}

Track(g, p, o) == [guitar |-> g, piano |-> p, other |-> o]
\* a per-track folder without the marker file guitar.wav
DecoyTrack == Track(NoFile, PianoFile, NoFile)
\* tmp/<top>/<track folders in os.listdir order>/<stem>.wav
MkTree(top, tracks) == [top |-> top, tracks |-> tracks]
NoTree == MkTree("none", <<>>)
ModelDirs == {"htdemucs_6s", "renamed"}
Layouts(t) == {<<>>, <<DecoyTrack>>, <<t>>, <<DecoyTrack, t>>, <<t, DecoyTrack>>}
\* every track of T in the usual layout, and the track t0 in every layout
TreesOf(T, t0) ==
    {NoTree} \cup {MkTree("htdemucs_6s", <<t>>) : t \in T}
             \cup {MkTree(top, l) : top \in ModelDirs, l \in Layouts(t0)}

PrimaryTracks ==
    {Track(g, p, o) : g \in WavFiles(GuitarPatterns) \cup BadFiles,
                      p \in {PianoFile, NoFile},
                      o \in WavFiles(OtherPatterns) \cup BadFiles \cup {NoFile}}
PrimaryTrack0 ==
    Track(Pcm16(Mono44, Signal("soft", 1)), PianoFile,
          Pcm16(Mono44, Signal("soft", 1)))
RefineTracks ==
    {Track(g, NoFile, NoFile) : g \in WavFiles(ExtractPatterns) \cup BadFiles}
RefineTrack0 == Track(Pcm16(Mono44, Signal("soft", 1)), NoFile, NoFile)
LeakP0 == Pcm16(Mono44, Signal("leak_p", 1))
LeakO0 == Pcm16(Mono44, Signal("leak_o", 1))
CleanupTracks ==
    {Track(PianoFile, p, LeakO0) :
        p \in {Pcm16(Mono44, s) : s \in Signals({"leak_p"})}
              \cup {Pcm16(<<2, 44100>>, Signal("leak_p", 1)), NoFile}} \cup
    {Track(PianoFile, LeakP0, o) :
        o \in {Pcm16(Mono44, s) : s \in Signals({"leak_o"})} \cup {CorruptFile}}
CleanupTrack0 == Track(PianoFile, LeakP0, LeakO0)

\* non-zero return codes of the engine process
FailCodes == {1, 2}

\* values of DEMUCS_GUITAR_CLEANUP, and what .strip().lower() makes of them
CleanupEnvValues == {"", "1", " TRUE ", "no"}
StripLower(v) == IF v = " TRUE " THEN "true" ELSE v
CleanupFlag(v) == StripLower(v) \in {"1", "true", "yes"}

\* values of DEMUCS_GUITAR_CLEANUP_ALPHA ("unset": not in the environment)
AlphaEnvValues == {"unset", "abc", "-100", "nan"}
\* lines 157-160, in tenths
ParseAlpha(v) ==
    CASE v = "unset" -> DefaultAlphaTenths
      [] v = "abc"   -> DefaultAlphaTenths
      [] v = "-100"  -> -1000
      [] v = "nan"   -> NaN

\* outcomes of one _write_wav_samples call: written; wave.open refused (file
\* untouched); an error after wave.open(path, "wb") truncated the file, which
\* is left empty or with unreadable partial content
WriteOutcomes == {"ok", "open_error", "io_error_empty", "io_error_partial"}

\* lines 44-51 with a failed write removing the file instead of leaving it
\* truncated
WriteWavUnlinks(old, fmt, samples, outcome) ==
    IF ~InRange16(samples) THEN old
    ELSE CASE outcome = "ok"               -> Pcm16(fmt, samples)
           [] outcome = "open_error"       -> old
           [] outcome = "io_error_empty"   -> NoFile
           [] outcome = "io_error_partial" -> NoFile

\* lines 44-51: the file at the path after the call; struct.pack raises before
\* the file is opened when a sample is outside the int16 range
WriteWav(old, fmt, samples, outcome) ==
    IF ~InRange16(samples) THEN old
    ELSE CASE outcome = "ok"               -> Pcm16(fmt, samples)
           [] outcome = "open_error"       -> old
           [] outcome = "io_error_empty"   -> EmptyFile
           [] outcome = "io_error_partial" -> CorruptFile
WriteRaises(samples, outcome) == ~InRange16(samples) \/ outcome # "ok"

\* _load_wav_samples(path) raises: missing, unreadable, or sample width # 2
LoadRaises(f) == f.kind # "pcm16"

\* lines 95-100: index of the first listed folder holding the marker file,
\* 0 when the model folder or such a folder is missing
FindTrack(t) ==
    IF t.top # "htdemucs_6s" THEN 0
    ELSE LET hits == {i \in 1..Len(t.tracks) : isfile(t.tracks[i].guitar)}
         IN  IF hits = {} THEN 0
             ELSE CHOOSE i \in hits : \A j \in hits : i <= j

NoRefineIO == [g1 |-> <<>>, o1 |-> <<>>, g2 |-> <<>>,
               guitar_sum |-> <<>>, other_diff |-> <<>>,
               guitar_new |-> <<>>, other_new |-> <<>>, fmt |-> <<0, 0>>]
NoCleanupIO == [g_orig |-> <<>>, p_extra |-> <<>>, o_extra |-> <<>>,
                cleaned |-> <<>>, guitar_final |-> <<>>]
NoFiles == [r \in Roles |-> NoFile]

\* Python's None, for lead_src and backing_src
None == "None"
\* no WAV at a path of stem-split-vocals.py
NoWav == [kind |-> "none", nch |-> 0, sampw |-> 0, sr |-> 0, frames |-> <<>>]

\* the variables of stem-split-vocals.py while another script runs
VocalsIdle ==
    /\ input = NoWav
    /\ padded = NoWav
    /\ to_process = "input_path"
    /\ separated = <<>>
    /\ output_files = <<>>
    /\ lead_src = None
    /\ backing_src = None
    /\ heuristic = <<None, None>>

\* the variables only stem-split-melodies.py uses, while another script runs
MelodiesIdle ==
    /\ cleanup_enabled = FALSE
    /\ alpha = DefaultAlphaTenths
    /\ refineOutcome = "not_reached"
    /\ cleanupOutcome = "not_reached"
    /\ refineIO = NoRefineIO
    /\ cleanupIO = NoCleanupIO
    /\ writeArgs = <<>>
    /\ primarySnap = NoFiles
    /\ fillDone = FALSE

---------------------------------------------------------------------------
(* main() *)

Init ==
    /\ pc = "start"
    /\ files = NoFiles
    /\ tree = NoTree
    /\ result = 0
    /\ tmpDirs = {}
    /\ stdout = 0
    /\ stderr = <<>>
    /\ exitCode = 0
    /\ cleanup_enabled = FALSE
    /\ alpha = DefaultAlphaTenths
    /\ engineCalls = <<>>
    /\ refineOutcome = "not_reached"
    /\ cleanupOutcome = "not_reached"
    /\ refineIO = NoRefineIO
    /\ cleanupIO = NoCleanupIO
    /\ writeArgs = <<>>
    /\ primarySnap = NoFiles
    /\ fillDone = FALSE
    /\ VocalsIdle

\* sys.exit(code) after print(tag, file=sys.stderr); leaving the with blocks
\* removes their temporary directories
Exit(tag, code) ==
    /\ pc' = "exited"
    /\ stderr' = Append(stderr, tag)
    /\ exitCode' = code
    /\ tmpDirs' = {}
    /\ tree' = NoTree
    /\ result' = 0

history == <<engineCalls, refineOutcome, cleanupOutcome, refineIO, cleanupIO,
             writeArgs, primarySnap, fillDone>>
env == <<cleanup_enabled, alpha>>

\* lines 66-68: wrong number of arguments
StartUsage ==
    /\ pc = "start"
    /\ Exit("usage", 1)
    /\ UNCHANGED vocalsVars
    /\ UNCHANGED <<files, stdout, env, history>>

\* lines 71-73: the input path is no file
StartNoInput ==
    /\ pc = "start"
    /\ Exit("input_not_found", 1)
    /\ UNCHANGED vocalsVars
    /\ UNCHANGED <<files, stdout, env, history>>

\* lines 69-87: melodies_dir and tmp are created, the engine runs on the input
PrimaryInvoke ==
    /\ pc = "start"
    /\ \E rc \in {0} \cup FailCodes :
       \E t \in IF rc = 0 THEN TreesOf(PrimaryTracks, PrimaryTrack0) ELSE {NoTree} :
          /\ result' = rc
          /\ tree' = t
    /\ tmpDirs' = {"tmp"}
    /\ engineCalls' = Append(engineCalls, "input")
    /\ pc' = "primary_ret"
    /\ UNCHANGED vocalsVars
    /\ UNCHANGED <<files, stdout, stderr, exitCode, env, refineOutcome,
                   cleanupOutcome, refineIO, cleanupIO, writeArgs, primarySnap,
                   fillDone>>

\* lines 88-90
PrimaryEngineFails ==
    /\ pc = "primary_ret"
    /\ result # 0
    /\ Exit("engine_diagnostic", result)
    /\ UNCHANGED vocalsVars
    /\ UNCHANGED <<files, stdout, env, history>>

\* lines 91-94
PrimaryNoModelDir ==
    /\ pc = "primary_ret"
    /\ result = 0
    /\ tree.top # "htdemucs_6s"
    /\ Exit("no_model_dir", 1)
    /\ UNCHANGED vocalsVars
    /\ UNCHANGED <<files, stdout, env, history>>

\* lines 95-103 without the sys.exit(1)
PrimaryNoTrackContinues ==
    /\ pc = "primary_ret"
    /\ result = 0
    /\ tree.top = "htdemucs_6s"
    /\ FindTrack(tree) = 0
    /\ pc' = "refine_gate"
    /\ stderr' = Append(stderr, "no_outputs")
    /\ tree' = NoTree
    /\ UNCHANGED vocalsVars
    /\ UNCHANGED <<files, result, tmpDirs, stdout, exitCode, env, history>>

\* lines 95-103
PrimaryNoTrack ==
    /\ pc = "primary_ret"
    /\ result = 0
    /\ tree.top = "htdemucs_6s"
    /\ FindTrack(tree) = 0
    /\ Exit("no_outputs", 1)
    /\ UNCHANGED vocalsVars
    /\ UNCHANGED <<files, stdout, env, history>>

\* lines 104-108: copy the stems the track folder holds
CopyStems(track_dir, dir) ==
    [r \in Roles |-> IF isfile(track_dir[r]) THEN track_dir[r] ELSE dir[r]]

\* lines 95-108
PrimaryCopy ==
    /\ pc = "primary_ret"
    /\ result = 0
    /\ FindTrack(tree) # 0
    /\ files' = CopyStems(tree.tracks[FindTrack(tree)], files)
    /\ primarySnap' = files'
    /\ tree' = NoTree
    /\ pc' = "refine_gate"
    /\ UNCHANGED vocalsVars
    /\ UNCHANGED <<result, tmpDirs, stdout, stderr, exitCode, env, engineCalls,
                   refineOutcome, cleanupOutcome, refineIO, cleanupIO,
                   writeArgs, fillDone>>

---------------------------------------------------------------------------
(* Second-pass refinement, lines 110-154 *)

\* the stage ends, by falling out of the try block or through its except
\* clause; tmp2 and tmp are removed on the way out
EndRefine(outcome, newFiles, warnings) ==
    /\ pc' = "cleanup_gate"
    /\ refineOutcome' = outcome
    /\ files' = newFiles
    /\ stderr' = stderr \o warnings
    /\ tmpDirs' = {}
    /\ tree' = NoTree
    /\ result' = 0

\* lines 113-114: a stem of the pair is missing, the stage is not entered
RefineNotEntered ==
    /\ pc = "refine_gate"
    /\ ~isfile(files["other"]) \/ ~isfile(files["guitar"])
    /\ EndRefine("not_entered", files, <<>>)
    /\ UNCHANGED vocalsVars
    /\ UNCHANGED <<stdout, exitCode, env, engineCalls, cleanupOutcome,
                   refineIO, cleanupIO, writeArgs, primarySnap, fillDone>>

\* lines 116-125: tmp2 is created and the engine runs on other.wav
RefineInvoke ==
    /\ pc = "refine_gate"
    /\ isfile(files["other"]) /\ isfile(files["guitar"])
    /\ \E rc \in {0} \cup FailCodes :
       \E t \in IF rc = 0 THEN TreesOf(RefineTracks, RefineTrack0) ELSE {NoTree} :
          /\ result' = rc
          /\ tree' = t
    /\ tmpDirs' = tmpDirs \cup {"tmp2"}
    /\ engineCalls' = Append(engineCalls, "other.wav")
    /\ refineOutcome' = "entered"
    /\ pc' = "refine_ret"
    /\ UNCHANGED vocalsVars
    /\ UNCHANGED <<files, stdout, stderr, exitCode, env, cleanupOutcome,
                   refineIO, cleanupIO, writeArgs, primarySnap, fillDone>>

\* lines 126-127 handled as lines 88-90 handle the primary pass
RefineEngineFailsFatal ==
    /\ pc = "refine_ret"
    /\ result # 0
    /\ refineOutcome' = "engine_failed"
    /\ Exit("engine_diagnostic", result)
    /\ UNCHANGED vocalsVars
    /\ UNCHANGED <<files, stdout, env, engineCalls, cleanupOutcome, refineIO,
                   cleanupIO, writeArgs, primarySnap, fillDone>>

\* lines 126-127
RefineEngineFails ==
    /\ pc = "refine_ret"
    /\ result # 0
    /\ EndRefine("engine_failed", files, <<"warn_refine_engine">>)
    /\ UNCHANGED vocalsVars
    /\ UNCHANGED <<stdout, exitCode, env, engineCalls, cleanupOutcome,
                   refineIO, cleanupIO, writeArgs, primarySnap, fillDone>>

\* lines 129-137: track_dir2 stays None, "if track_dir2:" has no else branch
RefineNoOutput ==
    /\ pc = "refine_ret"
    /\ result = 0
    /\ FindTrack(tree) = 0
    /\ EndRefine("output_not_found", files, <<>>)
    /\ UNCHANGED vocalsVars
    /\ UNCHANGED <<stdout, exitCode, env, engineCalls, cleanupOutcome,
                   refineIO, cleanupIO, writeArgs, primarySnap, fillDone>>

\* the three files lines 139-141 load
RefineInputs == <<files["guitar"], files["other"],
                  tree.tracks[FindTrack(tree)].guitar>>

\* lines 139-141, 153-154: one of the three loads raises
RefineLoadError ==
    /\ pc = "refine_ret"
    /\ result = 0
    /\ FindTrack(tree) # 0
    /\ \E i \in 1..3 : LoadRaises(RefineInputs[i])
    /\ EndRefine("load_error", files, <<"warn_refine_exception">>)
    /\ UNCHANGED vocalsVars
    /\ UNCHANGED <<stdout, exitCode, env, engineCalls, cleanupOutcome,
                   refineIO, cleanupIO, writeArgs, primarySnap, fillDone>>

\* line 142: (nch1, sr1) == (nch2, sr2) == (nch3, sr3)
SameFormat3(a, b, c) == FormatOf(a) = FormatOf(b) /\ FormatOf(b) = FormatOf(c)

RefineLoaded ==
    /\ pc = "refine_ret"
    /\ result = 0
    /\ FindTrack(tree) # 0
    /\ \A i \in 1..3 : ~LoadRaises(RefineInputs[i])

\* lines 142, 151-152
RefineFormatMismatch ==
    /\ RefineLoaded
    /\ ~SameFormat3(RefineInputs[1], RefineInputs[2], RefineInputs[3])
    /\ EndRefine("format_mismatch", files, <<"warn_refine_format">>)
    /\ UNCHANGED vocalsVars
    /\ UNCHANGED <<stdout, exitCode, env, engineCalls, cleanupOutcome,
                   refineIO, cleanupIO, writeArgs, primarySnap, fillDone>>

\* what lines 143-148 compute from the loaded signals
RefineComputed ==
    LET c == RefineCombine(RefineInputs[1].samples, RefineInputs[2].samples,
                           RefineInputs[3].samples)
    IN  [g1 |-> RefineInputs[1].samples, o1 |-> RefineInputs[2].samples,
         g2 |-> RefineInputs[3].samples,
         guitar_sum |-> c.guitar_sum, other_diff |-> c.other_diff,
         guitar_new |-> c.guitar_new, other_new |-> c.other_new,
         fmt |-> FormatOf(RefineInputs[1])]

\* lines 143-150: both writes succeed
RefineWritten ==
    /\ RefineLoaded
    /\ SameFormat3(RefineInputs[1], RefineInputs[2], RefineInputs[3])
    /\ \E io \in {RefineComputed} :
           /\ ~WriteRaises(io.guitar_new, "ok")
           /\ ~WriteRaises(io.other_new, "ok")
           /\ refineIO' = io
           /\ writeArgs' = writeArgs \o <<io.guitar_new, io.other_new>>
           /\ EndRefine("refined",
                  [files EXCEPT
                     !["guitar"] = WriteWav(@, io.fmt, io.guitar_new, "ok"),
                     !["other"] = WriteWav(@, io.fmt, io.other_new, "ok")],
                  <<>>)
    /\ UNCHANGED vocalsVars
    /\ UNCHANGED <<stdout, exitCode, env, engineCalls, cleanupOutcome,
                   cleanupIO, primarySnap, fillDone>>

\* lines 149, 153-154: the write of guitar.wav raises
RefineGuitarWriteFails ==
    /\ RefineLoaded
    /\ SameFormat3(RefineInputs[1], RefineInputs[2], RefineInputs[3])
    /\ \E w \in WriteOutcomes, io \in {RefineComputed} :
           /\ WriteRaises(io.guitar_new, w)
           /\ refineIO' = io
           /\ writeArgs' = Append(writeArgs, io.guitar_new)
           /\ EndRefine("write_error",
                  [files EXCEPT
                     !["guitar"] = WriteWav(@, io.fmt, io.guitar_new, w)],
                  <<"warn_refine_exception">>)
    /\ UNCHANGED vocalsVars
    /\ UNCHANGED <<stdout, exitCode, env, engineCalls, cleanupOutcome,
                   cleanupIO, primarySnap, fillDone>>

\* lines 149-150, 153-154: guitar.wav is written, the write of other.wav raises
RefineOtherWriteFails ==
    /\ RefineLoaded
    /\ SameFormat3(RefineInputs[1], RefineInputs[2], RefineInputs[3])
    /\ \E w \in WriteOutcomes, io \in {RefineComputed} :
           /\ ~WriteRaises(io.guitar_new, "ok")
           /\ WriteRaises(io.other_new, w)
           /\ refineIO' = io
           /\ writeArgs' = writeArgs \o <<io.guitar_new, io.other_new>>
           /\ EndRefine("write_error",
                  [files EXCEPT
                     !["guitar"] = WriteWav(@, io.fmt, io.guitar_new, "ok"),
                     !["other"] = WriteWav(@, io.fmt, io.other_new, w)],
                  <<"warn_refine_exception">>)
    /\ UNCHANGED vocalsVars
    /\ UNCHANGED <<stdout, exitCode, env, engineCalls, cleanupOutcome,
                   cleanupIO, primarySnap, fillDone>>

---------------------------------------------------------------------------
(* Optional guitar cleanup, lines 155-202 *)

\* the stage ends; tmp_clean is removed on the way out
EndCleanup(outcome, newFiles, warnings) ==
    /\ pc' = "fill"
    /\ cleanupOutcome' = outcome
    /\ files' = newFiles
    /\ stderr' = stderr \o warnings
    /\ tmpDirs' = {}
    /\ tree' = NoTree
    /\ result' = 0

\* lines 161-163 without the test of the flag
CleanupGateAlways(enabled, dir) == isfile(dir["guitar"])

\* lines 161-163: the stage is entered
CleanupGate(enabled, dir) == enabled /\ isfile(dir["guitar"])

\* lines 156-160: the two environment variables are read
ReadEnv ==
    \E flag \in CleanupEnvValues, a \in AlphaEnvValues :
        /\ cleanup_enabled' = CleanupFlag(flag)
        /\ alpha' = ParseAlpha(a)

\* lines 156-163: the flag is unset (or guitar.wav is missing)
CleanupNotEntered ==
    /\ pc = "cleanup_gate"
    /\ ReadEnv
    /\ ~CleanupGate(cleanup_enabled', files)
    /\ EndCleanup("not_entered", files, <<>>)
    /\ refineIO' = NoRefineIO
    /\ writeArgs' = <<>>
    /\ primarySnap' = NoFiles
    /\ UNCHANGED vocalsVars
    /\ UNCHANGED <<stdout, exitCode, engineCalls, refineOutcome, cleanupIO,
                   fillDone>>

\* lines 156-174: tmp_clean is created and the engine runs on guitar.wav
CleanupInvoke ==
    /\ pc = "cleanup_gate"
    /\ ReadEnv
    /\ CleanupGate(cleanup_enabled', files)
    /\ \E rc \in {0} \cup FailCodes :
       \E t \in IF rc = 0 THEN TreesOf(CleanupTracks, CleanupTrack0)
                ELSE {NoTree} :
          /\ result' = rc
          /\ tree' = t
    /\ tmpDirs' = {"tmp_clean"}
    /\ engineCalls' = Append(engineCalls, "guitar.wav")
    /\ cleanupOutcome' = "entered"
    /\ pc' = "cleanup_ret"
    /\ refineIO' = NoRefineIO
    /\ writeArgs' = <<>>
    /\ primarySnap' = NoFiles
    /\ UNCHANGED vocalsVars
    /\ UNCHANGED <<files, stdout, stderr, exitCode, refineOutcome, cleanupIO,
                   fillDone>>

\* lines 175-176
CleanupEngineFails ==
    /\ pc = "cleanup_ret"
    /\ result # 0
    /\ EndCleanup("engine_failed", files, <<"warn_cleanup_engine">>)
    /\ UNCHANGED vocalsVars
    /\ UNCHANGED <<stdout, exitCode, env, engineCalls, refineOutcome, refineIO,
                   cleanupIO, writeArgs, primarySnap, fillDone>>

\* lines 178-186: track_clean stays None, "if track_clean:" has no else branch
CleanupNoOutput ==
    /\ pc = "cleanup_ret"
    /\ result = 0
    /\ FindTrack(tree) = 0
    /\ EndCleanup("output_not_found", files, <<>>)
    /\ UNCHANGED vocalsVars
    /\ UNCHANGED <<stdout, exitCode, env, engineCalls, refineOutcome, refineIO,
                   cleanupIO, writeArgs, primarySnap, fillDone>>

\* the three files lines 187-189 load
CleanupInputs == <<files["guitar"], tree.tracks[FindTrack(tree)].piano,
                   tree.tracks[FindTrack(tree)].other>>

\* lines 187-189, 201-202: one of the three loads raises
CleanupLoadError ==
    /\ pc = "cleanup_ret"
    /\ result = 0
    /\ FindTrack(tree) # 0
    /\ \E i \in 1..3 : LoadRaises(CleanupInputs[i])
    /\ EndCleanup("load_error", files, <<"warn_cleanup_exception">>)
    /\ UNCHANGED vocalsVars
    /\ UNCHANGED <<stdout, exitCode, env, engineCalls, refineOutcome, refineIO,
                   cleanupIO, writeArgs, primarySnap, fillDone>>

CleanupLoaded ==
    /\ pc = "cleanup_ret"
    /\ result = 0
    /\ FindTrack(tree) # 0
    /\ \A i \in 1..3 : ~LoadRaises(CleanupInputs[i])

\* lines 195-198, 201-202: round() raises on a NaN
CleanupRoundError ==
    /\ CleanupLoaded
    /\ CleanupRaises(CleanupInputs[1].samples, CleanupInputs[2].samples,
                     CleanupInputs[3].samples, alpha)
    /\ EndCleanup("round_error", files, <<"warn_cleanup_exception">>)
    /\ UNCHANGED vocalsVars
    /\ UNCHANGED <<stdout, exitCode, env, engineCalls, refineOutcome, refineIO,
                   cleanupIO, writeArgs, primarySnap, fillDone>>

\* what lines 190-199 compute from the loaded signals
CleanupComputed ==
    LET c == CleanupCombine(CleanupInputs[1].samples, CleanupInputs[2].samples,
                            CleanupInputs[3].samples, alpha)
    IN  [g_orig |-> CleanupInputs[1].samples,
         p_extra |-> CleanupInputs[2].samples,
         o_extra |-> CleanupInputs[3].samples,
         cleaned |-> c.cleaned, guitar_final |-> c.guitar_final]

\* lines 187-200: guitar.wav is overwritten, or its write raises (201-202)
CleanupWrite ==
    /\ CleanupLoaded
    /\ ~CleanupRaises(CleanupInputs[1].samples, CleanupInputs[2].samples,
                      CleanupInputs[3].samples, alpha)
    /\ \E w \in WriteOutcomes, io \in {CleanupComputed} :
       \E raised \in {WriteRaises(io.guitar_final, w)} :
           /\ cleanupIO' = io
           /\ writeArgs' = Append(writeArgs, io.guitar_final)
           /\ EndCleanup(IF raised THEN "write_error" ELSE "cleaned",
                  [files EXCEPT !["guitar"] =
                     WriteWav(@, FormatOf(CleanupInputs[1]), io.guitar_final, w)],
                  IF raised THEN <<"warn_cleanup_exception">> ELSE <<>>)
    /\ UNCHANGED vocalsVars
    /\ UNCHANGED <<stdout, exitCode, env, engineCalls, refineOutcome, refineIO,
                   primarySnap, fillDone>>

---------------------------------------------------------------------------
(* Completeness-fill and the success token, lines 203-215 *)

\* lines 205-210: index in melody_stems of the first stem with a file, 0 if none
FillSrc(dir) ==
    LET have == {i \in 1..Len(melody_stems) : isfile(dir[melody_stems[i]])}
    IN  IF have = {} THEN 0 ELSE CHOOSE i \in have : \A j \in have : i <= j

\* lines 211-214 with the copy made for every stem, missing or not
FillMissingAll(dir) ==
    [r \in Roles |->
        IF FillSrc(dir) # 0 THEN dir[melody_stems[FillSrc(dir)]] ELSE dir[r]]

\* lines 211-214: shutil.copy2(fill_src, p) for every missing stem
FillMissing(dir) ==
    [r \in Roles |->
        IF ~isfile(dir[r]) /\ FillSrc(dir) # 0
        THEN dir[melody_stems[FillSrc(dir)]]
        ELSE dir[r]]

\* lines 203-214
CompletenessFill ==
    /\ pc = "fill"
    /\ files' = FillMissing(files)
    /\ fillDone' = TRUE
    /\ pc' = "print"
    /\ cleanupIO' = NoCleanupIO
    /\ writeArgs' = <<>>
    /\ UNCHANGED vocalsVars
    /\ UNCHANGED <<tree, result, tmpDirs, stdout, stderr, exitCode, env,
                   engineCalls, refineOutcome, cleanupOutcome, refineIO,
                   primarySnap>>

\* line 215, then main() returns and the process exits with status 0
PrintOk ==
    /\ pc = "print"
    /\ stdout' = stdout + 1
    /\ exitCode' = 0
    /\ pc' = "exited"
    /\ UNCHANGED vocalsVars
    /\ UNCHANGED <<files, tree, result, tmpDirs, stderr, env, history>>

Next ==
    \/ StartUsage
    \/ StartNoInput
    \/ PrimaryInvoke
    \/ PrimaryEngineFails
    \/ PrimaryNoModelDir
    \/ PrimaryNoTrack
    \/ PrimaryCopy
    \/ RefineNotEntered
    \/ RefineInvoke
    \/ RefineEngineFails
    \/ RefineNoOutput
    \/ RefineLoadError
    \/ RefineFormatMismatch
    \/ RefineWritten
    \/ RefineGuitarWriteFails
    \/ RefineOtherWriteFails
    \/ CleanupNotEntered
    \/ CleanupInvoke
    \/ CleanupEngineFails
    \/ CleanupNoOutput
    \/ CleanupLoadError
    \/ CleanupRoundError
    \/ CleanupWrite
    \/ CompletenessFill
    \/ PrintOk

Spec == Init /\ [][Next]_vars

---------------------------------------------------------------------------
(* scripts/stem-split.py: one run of the 4-stem pipeline *)

four_stems == <<"vocals", "drums", "bass", "other">>
FourRoles == {"vocals", "drums", "bass", "other"}
NoFiles4 == [r \in FourRoles |-> NoFile]

\* the variables stem-split.py does not use
fourUnused == <<vocalsVars, env, refineOutcome, cleanupOutcome, refineIO,
                cleanupIO, writeArgs, primarySnap, fillDone>>

\* a stem file of the 4-stem engine; its one sample tells the stems apart
StemFile(k) == Pcm16(Mono44, <<k>>)
Track4(v, d, b, o) == [vocals |-> v, drums |-> d, bass |-> b, other |-> o]
\* a per-track folder without the marker file vocals.wav
DecoyTrack4 == Track4(NoFile, StemFile(2), NoFile, NoFile)
FourTracks ==
    {Track4(v, d, b, o) : v \in {StemFile(1), EmptyFile},
                          d \in {StemFile(2), EmptyFile, NoFile},
                          b \in {StemFile(3), EmptyFile, NoFile},
                          o \in {StemFile(4), EmptyFile, NoFile}}
\* Scenario 2: only vocals.wav and drums.wav are produced
FourTrack0 == Track4(StemFile(1), StemFile(2), NoFile, NoFile)
FourModelDirs == {"htdemucs", "renamed"}
\* a second per-track folder with the marker file
SecondTrack4 == Track4(StemFile(5), NoFile, NoFile, StemFile(4))
Layouts4(t) ==
    {<<>>, <<DecoyTrack4>>, <<t>>, <<DecoyTrack4, t>>, <<t, DecoyTrack4>>,
     <<t, SecondTrack4>>, <<SecondTrack4, t>>}
\* every track in the usual layout, and the track FourTrack0 in every layout
FourTrees ==
    {NoTree} \cup {MkTree("htdemucs", <<t>>) : t \in FourTracks}
             \cup {MkTree(top, l) : top \in FourModelDirs,
                                    l \in Layouts4(FourTrack0)}

\* the directory the engine creates under output_dir for its output tree
FourEngineDir(top) ==
    IF top = "htdemucs" THEN "output_dir/htdemucs" ELSE "output_dir/renamed"

\* lines 48-58 with only the first listed folder looked at
FindTrack4FirstOnly(t) ==
    IF t.top # "htdemucs" THEN 0
    ELSE IF Len(t.tracks) > 0 /\ isfile(t.tracks[1].vocals) THEN 1 ELSE 0

\* lines 48-58: index of the first listed folder of output_dir/htdemucs that
\* holds vocals.wav, 0 when there is none
FindTrack4(t) ==
    IF t.top # "htdemucs" THEN 0
    ELSE LET hits == {i \in 1..Len(t.tracks) : isfile(t.tracks[i].vocals)}
         IN  IF hits = {} THEN 0
             ELSE CHOOSE i \in hits : \A j \in hits : i <= j

InitFour ==
    /\ pc = "four_start"
    /\ files = NoFiles4
    /\ tree = NoTree
    /\ result = 0
    /\ tmpDirs = {}
    /\ stdout = 0
    /\ stderr = <<>>
    /\ exitCode = 0
    /\ engineCalls = <<>>
    /\ MelodiesIdle
    /\ VocalsIdle

\* sys.exit(code) after print(tag, file=sys.stderr); what the engine wrote
\* under output_dir stays on disk
FourExit(tag, code) ==
    /\ pc' = "exited"
    /\ stderr' = Append(stderr, tag)
    /\ exitCode' = code
    /\ UNCHANGED <<files, tree, result, tmpDirs, stdout, engineCalls,
                   fourUnused>>

\* lines 24-26
FourStartUsage ==
    /\ pc = "four_start"
    /\ FourExit("usage", 1)

\* lines 29-31
FourStartNoInput ==
    /\ pc = "four_start"
    /\ FourExit("input_not_found", 1)

\* lines 32-41: output_dir is created and the engine runs with -o output_dir
FourInvoke ==
    /\ pc = "four_start"
    /\ \E rc \in {0} \cup FailCodes :
       \E t \in IF rc = 0 THEN FourTrees ELSE {NoTree} :
          /\ result' = rc
          /\ tree' = t
          /\ tmpDirs' = IF t = NoTree THEN {} ELSE {FourEngineDir(t.top)}
    /\ engineCalls' = Append(engineCalls, "input")
    /\ pc' = "four_ret"
    /\ UNCHANGED <<files, stdout, stderr, exitCode, fourUnused>>

\* lines 42-44 with sys.exit(1) for sys.exit(result.returncode)
FourEngineFailsGeneric ==
    /\ pc = "four_ret"
    /\ result # 0
    /\ FourExit("engine_diagnostic", 1)

\* lines 42-44
FourEngineFails ==
    /\ pc = "four_ret"
    /\ result # 0
    /\ FourExit("engine_diagnostic", result)

\* lines 48-51
FourNoModelDir ==
    /\ pc = "four_ret"
    /\ result = 0
    /\ tree.top # "htdemucs"
    /\ FourExit("no_model_dir", 1)

\* lines 53-61
FourNoTrack ==
    /\ pc = "four_ret"
    /\ result = 0
    /\ tree.top = "htdemucs"
    /\ FindTrack4(tree) = 0
    /\ FourExit("no_outputs", 1)

\* lines 63-67: copy the stems the track folder holds
CopyStems4(track_dir, dir) ==
    [r \in FourRoles |-> IF isfile(track_dir[r]) THEN track_dir[r] ELSE dir[r]]

\* lines 53-67
FourCopy ==
    /\ pc = "four_ret"
    /\ result = 0
    /\ FindTrack4(tree) # 0
    /\ files' = CopyStems4(tree.tracks[FindTrack4(tree)], files)
    /\ pc' = "four_print"
    /\ UNCHANGED <<tree, result, tmpDirs, stdout, stderr, exitCode,
                   engineCalls, fourUnused>>

\* line 68, then main() returns and the process exits with status 0
FourPrintOk ==
    /\ pc = "four_print"
    /\ stdout' = stdout + 1
    /\ exitCode' = 0
    /\ pc' = "exited"
    /\ UNCHANGED <<files, tree, result, tmpDirs, stderr, engineCalls,
                   fourUnused>>

NextFour ==
    \/ FourStartUsage
    \/ FourStartNoInput
    \/ FourInvoke
    \/ FourEngineFails
    \/ FourNoModelDir
    \/ FourNoTrack
    \/ FourCopy
    \/ FourPrintOk

SpecFour == InitFour /\ [][NextFour]_vars

---------------------------------------------------------------------------
(* scripts/stem-split-vocals.py: one run of the lead/backing pipeline *)

\* the variables stem-split-vocals.py does not use
vocalsUnused == <<tree, result, engineCalls, env, refineOutcome,
                  cleanupOutcome, refineIO, cleanupIO, writeArgs, primarySnap,
                  fillDone>>

NoFilesV == [lead |-> NoFile, backing |-> NoFile]

\* a WAV of n frames; frame i holds the value i, a frame of zero bytes is 0
Wav(nch, sampw, sr, n) ==
    [kind |-> "wav", nch |-> nch, sampw |-> sampw, sr |-> sr,
     frames |-> [i \in 1..n |-> i]]
\* a file wave.open cannot parse
CorruptWav == [kind |-> "corrupt", nch |-> 0, sampw |-> 0, sr |-> 0,
               frames |-> <<>>]
InputRates == 0..MaxRate
\* frame counts: none, one, and around ten seconds at every rate
InputLengths ==
    {0, 1} \cup {MIN_DURATION_SEC * sr + d : sr \in 1..MaxRate, d \in {-1, 0, 1}}
InputWavs ==
    {Wav(1, 2, sr, n) : sr \in InputRates, n \in InputLengths}
    \cup {Wav(2, 2, 1, 3), Wav(1, 1, 1, 3), CorruptWav}

Zeros(k) == [i \in 1..k |-> 0]

\* lines 22-32: the number of frames of silence to append, 0 when
\* pad_audio_if_needed returns wav_path; n / float(sr) >= 10.0 exactly when
\* n >= 10 * sr
NeedFrames(w) ==
    IF w.sr # 0 /\ Len(w.frames) >= MIN_DURATION_SEC * w.sr THEN 0
    ELSE Max2(0, MIN_DURATION_SEC * w.sr - Len(w.frames))

\* lines 33-41 with the silence written before the frames of the input
PaddedFileFront(w) ==
    [w EXCEPT !.frames = Zeros(NeedFrames(w)) \o w.frames]

\* lines 33-41: the file written at out_path
PaddedFile(w) ==
    [w EXCEPT !.frames = w.frames \o Zeros(NeedFrames(w))]

\* outcomes of writing tmp/padded.wav
PadWriteOutcomes == {"ok", "io_error"}

\* pad_audio_if_needed(wav_path, out_path): the path it returns ("raise" when
\* it raises) and the file at out_path afterwards
pad_audio_if_needed(w, outcome) ==
    IF w.kind # "wav" THEN [ret |-> "raise", out |-> NoWav]
    ELSE IF NeedFrames(w) = 0 THEN [ret |-> "input_path", out |-> NoWav]
    ELSE IF outcome # "ok" THEN [ret |-> "raise", out |-> CorruptWav]
    ELSE [ret |-> "padded", out |-> PaddedFile(w)]

\* base names separate() may return, and the substrings tested at lines
\* 102-111 that occur in each name once lower-cased
OutputNames == {"song_(Vocals).wav", "song_(Instrumental).wav",
                "song_no_vocals.wav", "song_Lead_BG.wav",
                "stem_1.wav", "stem_2.wav"}
KeywordsIn(name) ==
    CASE name = "song_(Vocals).wav"       -> {"(vocals)"}
      [] name = "song_(Instrumental).wav" -> {"(instrumental)", "instrumental"}
      [] name = "song_no_vocals.wav"      -> {"no_vocal", "_vocal"}
      [] name = "song_Lead_BG.wav"        -> {"lead", "bg"}
      [] OTHER                            -> {}
\* lines 102-105
LeadWords == {"lead", "main", "solo", "(vocals)", "_vocal", "vocal_"}
\* lines 107-111
BackingWords == {"backing", "accompaniment", "harmony", "bg", "(instrumental)",
                 "(other)", "instrumental", "no_vocal"}
LeadMatch(name) == KeywordsIn(name) \cap LeadWords # {}
BackingMatch(name) == KeywordsIn(name) \cap BackingWords # {}

\* lists of distinct names with, for each, whether the file exists in sep_out
Distinct(l) == \A i, j \in 1..Len(l) : i # j => l[i].name # l[j].name
SeparatedLists ==
    {l \in SeqsUpTo([name : OutputNames, isfile : BOOLEAN], MaxOutputs) :
        Distinct(l)}

RECURSIVE ExistingFiles(_)
\* lines 92-93
ExistingFiles(l) ==
    IF Len(l) = 0 THEN <<>>
    ELSE (IF Head(l).isfile THEN <<Head(l).name>> ELSE <<>>)
         \o ExistingFiles(Tail(l))

RECURSIVE Heuristics(_, _, _, _)
\* lines 100-114: the loop from index i on, with lead_src = l, backing_src = b
Heuristics(fs, i, l, b) ==
    IF i > Len(fs) THEN <<l, b>>
    ELSE LET isLead == l = None /\ LeadMatch(fs[i])
             isBacking == ~isLead /\ b = None /\ BackingMatch(fs[i])
             l2 == IF isLead THEN fs[i] ELSE l
             b2 == IF isBacking THEN fs[i] ELSE b
         IN  IF l2 # None /\ b2 # None THEN <<l2, b2>>
             ELSE Heuristics(fs, i + 1, l2, b2)

\* lines 116-120 without the positional fallback
PositionalNever(fs, h) == h

\* lines 116-120
Positional(fs, h) ==
    IF Len(fs) >= 2 /\ (h[1] = None \/ h[2] = None \/ h[1] = h[2])
    THEN <<fs[1], fs[2]>>
    ELSE h

\* the file shutil.copy2 makes of the output file called name
Output(name) == [kind |-> "output", nch |-> 2, sr |-> 44100, samples |-> <<>>,
                 of |-> name]

\* lines 122-136: vocals_sep_dir after the copies
CopyOutputs(dir, fs, l, b) ==
    LET lead1 == IF l # None THEN Output(l) ELSE dir.lead
        backing1 == IF b # None /\ b # l THEN Output(b)
                    ELSE IF b = None /\ Len(fs) >= 2 THEN Output(fs[2])
                    ELSE dir.backing
        lead2 == IF ~isfile(lead1) /\ Len(fs) > 0 THEN Output(fs[1]) ELSE lead1
        backing2 == IF isfile(backing1) THEN backing1
                    ELSE IF Len(fs) >= 2 /\ fs[2] # fs[1] THEN Output(fs[2])
                    ELSE IF Len(fs) > 0 THEN Output(fs[1])
                    ELSE backing1
    IN  [lead |-> lead2, backing |-> backing2]

\* lines 137-141
FillLeadBacking(dir) ==
    LET lead1 == IF ~isfile(dir.lead) /\ isfile(dir.backing)
                 THEN dir.backing ELSE dir.lead
        backing1 == IF ~isfile(dir.backing) /\ isfile(lead1)
                    THEN lead1 ELSE dir.backing
    IN  [lead |-> lead1, backing |-> backing1]

InitVocals ==
    /\ pc = "voc_start"
    /\ files = NoFilesV
    /\ tree = NoTree
    /\ result = 0
    /\ tmpDirs = {}
    /\ stdout = 0
    /\ stderr = <<>>
    /\ exitCode = 0
    /\ engineCalls = <<>>
    /\ MelodiesIdle
    /\ VocalsIdle

\* sys.exit(1) after print(tag, file=sys.stderr); leaving the with block
\* removes tmp, padded.wav and sep_out with it
VocalsExit(tag) ==
    /\ pc' = "exited"
    /\ stderr' = Append(stderr, tag)
    /\ exitCode' = 1
    /\ tmpDirs' = {}
    /\ padded' = NoWav
    /\ UNCHANGED <<files, stdout, input, to_process, separated, output_files,
                   lead_src, backing_src, heuristic, vocalsUnused>>

\* lines 46-48
VocalsStartUsage ==
    /\ pc = "voc_start"
    /\ VocalsExit("usage")

\* lines 51-53
VocalsStartNoInput ==
    /\ pc = "voc_start"
    /\ VocalsExit("input_not_found")

\* lines 56-63
VocalsImportError ==
    /\ pc = "voc_start"
    /\ VocalsExit("not_installed")

\* lines 54-72: vocals_sep_dir and tmp are created, the input is padded
VocalsPad ==
    /\ pc = "voc_start"
    /\ \E w \in InputWavs, outcome \in PadWriteOutcomes :
       \E r \in {pad_audio_if_needed(w, outcome)} :
          /\ input' = w
          /\ padded' = r.out
          /\ to_process' = IF r.ret = "raise" THEN "input_path" ELSE r.ret
          /\ stderr' = IF r.ret = "raise" THEN Append(stderr, "warn_pad")
                       ELSE stderr
    /\ tmpDirs' = {"tmp"}
    /\ pc' = "voc_padded"
    /\ UNCHANGED <<files, stdout, exitCode, separated, output_files, lead_src,
                   backing_src, heuristic, vocalsUnused>>

\* lines 78-82
VocalsLoadModelFails ==
    /\ pc = "voc_padded"
    /\ VocalsExit("load_model_failed")

\* lines 83-87
VocalsSeparateFails ==
    /\ pc = "voc_padded"
    /\ VocalsExit("separation_failed")

\* lines 73-84: the model loads and separate(to_process) returns
VocalsSeparate ==
    /\ pc = "voc_padded"
    /\ separated' \in SeparatedLists
    /\ pc' = "voc_separated"
    /\ UNCHANGED <<files, tmpDirs, stdout, stderr, exitCode, input, padded,
                   to_process, output_files, lead_src, backing_src, heuristic,
                   vocalsUnused>>

\* lines 88-90
VocalsNoOutput ==
    /\ pc = "voc_separated"
    /\ separated = <<>>
    /\ VocalsExit("no_output_files")

\* lines 91-120
VocalsClassify ==
    /\ pc = "voc_separated"
    /\ separated # <<>>
    /\ output_files' = ExistingFiles(separated)
    /\ heuristic' = Heuristics(output_files', 1, None, None)
    /\ \E final \in {Positional(output_files', heuristic')} :
          /\ lead_src' = final[1]
          /\ backing_src' = final[2]
    /\ pc' = "voc_classified"
    /\ UNCHANGED <<files, tmpDirs, stdout, stderr, exitCode, input, padded,
                   to_process, separated, vocalsUnused>>

\* lines 122-136, then the with block ends and tmp is removed
VocalsCopy ==
    /\ pc = "voc_classified"
    /\ files' = CopyOutputs(files, output_files, lead_src, backing_src)
    /\ tmpDirs' = {}
    /\ padded' = NoWav
    /\ pc' = "voc_fill"
    /\ UNCHANGED <<stdout, stderr, exitCode, input, to_process, separated,
                   output_files, lead_src, backing_src, heuristic, vocalsUnused>>

\* lines 137-141
VocalsFill ==
    /\ pc = "voc_fill"
    /\ files' = FillLeadBacking(files)
    /\ pc' = "voc_print"
    /\ UNCHANGED <<tmpDirs, stdout, stderr, exitCode, vocalsVars, vocalsUnused>>

\* line 142, then main() returns and the process exits with status 0
VocalsPrintOk ==
    /\ pc = "voc_print"
    /\ stdout' = stdout + 1
    /\ exitCode' = 0
    /\ pc' = "exited"
    /\ UNCHANGED <<files, tmpDirs, stderr, vocalsVars, vocalsUnused>>

NextVocals ==
    \/ VocalsStartUsage
    \/ VocalsStartNoInput
    \/ VocalsImportError
    \/ VocalsPad
    \/ VocalsLoadModelFails
    \/ VocalsSeparateFails
    \/ VocalsSeparate
    \/ VocalsNoOutput
    \/ VocalsClassify
    \/ VocalsCopy
    \/ VocalsFill
    \/ VocalsPrintOk

SpecVocals == InitVocals /\ [][NextVocals]_vars

---------------------------------------------------------------------------
(* A run of any of the three scripts *)

InitAll == Init \/ InitFour \/ InitVocals
NextAll == Next \/ NextFour \/ NextVocals
SpecAll == InitAll /\ [][NextAll]_vars

---------------------------------------------------------------------------
(* Properties *)

Printed(tag) == \E i \in 1..Len(stderr) : stderr[i] = tag

\* the primary pass has succeeded: main() is past line 108
PrimarySucceeded ==
    \/ pc \in {"refine_gate", "refine_ret", "cleanup_gate", "cleanup_ret",
               "fill", "print"}
    \/ pc = "exited" /\ refineOutcome # "not_reached"

\* branches in which a stage that was entered ends without its result
StageErrors == {"engine_failed", "output_not_found", "load_error",
                "format_mismatch", "round_error", "write_error"}

\* some folder of the engine's output, under any name, holds the marker file
MarkerDirExists(t) == \E i \in 1..Len(t.tracks) : isfile(t.tracks[i].guitar)

\* C1: once completeness-fill has run, every role of guitar, piano, other has
\* a non-empty file or a PartialResultWarning was reported.
C1_CompleteOrWarned ==
    fillDone =>
        \/ \A r \in Roles : NonEmpty(files[r])
        \/ Printed("PartialResultWarning")

\* C2: when the primary engine call returns non-zero or its output holds no
\* folder with the marker file, the next step ends the run with a non-zero
\* status, without another engine call, without completeness-fill and without
\* the success token; and nothing happens after the run has ended.
C2_PrimaryFailureIsFatal ==
    [][ /\ (pc = "primary_ret" /\ (result # 0 \/ ~MarkerDirExists(tree)))
            => /\ pc' = "exited"
               /\ exitCode' # 0
               /\ stdout' = 0
               /\ ~fillDone'
               /\ engineCalls' = engineCalls
               /\ files' = files
               /\ refineOutcome' = "not_reached"
               /\ cleanupOutcome' = "not_reached"
        /\ (pc = "exited" => vars' = vars) ]_vars

C2_Witness ==
    /\ pc = "exited"
    /\ Printed("no_outputs")
    /\ exitCode = 1
    /\ Len(engineCalls) = 1

\* C3: once the primary pass has succeeded, no step of the refinement or
\* cleanup stage ends the run: the only step that ends it is the one that
\* prints the success token after completeness-fill, with exit status 0.
C3_OptionalStagesNeverAbort ==
    /\ [](PrimarySucceeded /\ pc = "exited"
            => fillDone /\ stdout = 1 /\ exitCode = 0)
    /\ [][ (PrimarySucceeded /\ pc' = "exited")
              => pc = "print" /\ fillDone /\ stdout' = 1 /\ exitCode' = 0 ]_vars

C3_Witness ==
    /\ pc = "exited"
    /\ refineOutcome = "write_error"
    /\ cleanupOutcome = "engine_failed"
    /\ stdout = 1

\* C4: every optional stage that was entered and ended in an error, the
\* missing marker folder included, has logged a warning of that stage.
C4_AbandonedStageWarns ==
    /\ refineOutcome \in StageErrors =>
          \/ Printed("warn_refine_engine")
          \/ Printed("warn_refine_format")
          \/ Printed("warn_refine_exception")
    /\ cleanupOutcome \in StageErrors =>
          \/ Printed("warn_cleanup_engine")
          \/ Printed("warn_cleanup_exception")

\* C5: when the refinement stage has ended in an error, guitar.wav and
\* other.wav hold what the primary pass left in them.
C5_FailedRefinementLeavesPrimary ==
    (pc = "cleanup_gate" /\ refineOutcome \in StageErrors) =>
        /\ files["guitar"] = primarySnap["guitar"]
        /\ files["other"] = primarySnap["other"]

Clamp16Seq(s) == [i \in 1..Len(s) |-> Clamp16(s[i])]
Min3(a, b, c) == Min2(a, Min2(b, c))

\* C6 as stated: after a successful refinement guitar.wav holds
\* normalize_peak(clamp16(target + extracted)) and other.wav holds
\* normalize_peak(clamp16(donor - extracted)).
C6_ClampThenNormalize ==
    (pc = "cleanup_gate" /\ refineOutcome = "refined") =>
        /\ files["guitar"].samples =
              normalize_16bit(Clamp16Seq(ZipAdd(refineIO.g1, refineIO.g2)))
        /\ files["other"].samples =
              normalize_16bit(Clamp16Seq(ZipSub(refineIO.o1, refineIO.g2)))

\* C6 amended: after a successful refinement guitar.wav holds the peak
\* normalization of the raw sums target[i] + extracted[i], and other.wav that
\* of the raw differences donor[i] - extracted[i], over the first
\* min(len(target), len(donor), len(extracted)) samples, in the format of the
\* target; nothing is saturated before the scale factor is computed.
C6_NormalizeRawSum ==
    (pc = "cleanup_gate" /\ refineOutcome = "refined") =>
        LET n == Min3(Len(refineIO.g1), Len(refineIO.o1), Len(refineIO.g2))
            sum == [i \in 1..n |-> refineIO.g1[i] + refineIO.g2[i]]
            diff == [i \in 1..n |-> refineIO.o1[i] - refineIO.g2[i]]
        IN  /\ files["guitar"] = Pcm16(FormatOf(primarySnap["guitar"]),
                                       normalize_16bit(sum))
            /\ files["other"] = Pcm16(FormatOf(primarySnap["guitar"]),
                                      normalize_16bit(diff))
            /\ refineIO.g1 = primarySnap["guitar"].samples
            /\ refineIO.o1 = primarySnap["other"].samples

C6_Witness ==
    /\ pc = "cleanup_gate"
    /\ refineOutcome = "refined"
    /\ refineIO.g1 = <<30000, 1000>>
    /\ refineIO.g2 = <<30000, 1000>>
    /\ files["guitar"].samples = <<32767, 1092>>

\* the (argument, result) pairs of the _normalize_16bit calls of the stage
\* that ended last
NormalizeCalls ==
    (IF pc = "cleanup_gate" /\ refineOutcome \in {"refined", "write_error"}
     THEN {<<refineIO.guitar_sum, refineIO.guitar_new>>,
           <<refineIO.other_diff, refineIO.other_new>>}
     ELSE {}) \cup
    (IF pc = "fill" /\ cleanupOutcome \in {"cleaned", "write_error"}
     THEN {<<cleanupIO.cleaned, cleanupIO.guitar_final>>}
     ELSE {})

AllZero(s) == \A i \in 1..Len(s) : s[i] = 0
PeakOf(s) == IF \E i \in 1..Len(s) : Abs(s[i]) = Int16Max
                  /\ \A j \in 1..Len(s) : Abs(s[j]) <= Int16Max
             THEN Int16Max ELSE 0

\* C7: every _normalize_16bit call on a list that is not empty and not all
\* zero returns a list of the same length whose largest absolute value is
\* exactly 32767; on an empty or all-zero list it returns its argument.
C7_PeakIs32767 ==
    \A c \in NormalizeCalls :
        IF Len(c[1]) = 0 \/ AllZero(c[1])
        THEN c[2] = c[1]
        ELSE Len(c[2]) = Len(c[1]) /\ PeakOf(c[2]) = Int16Max

C7_Witness ==
    /\ pc = "cleanup_gate"
    /\ \E c \in NormalizeCalls : \E i \in 1..Len(c[1]) : c[1][i] > Int16Max
    /\ \E c \in NormalizeCalls : Len(c[1]) > 1 /\ AllZero(c[1])

\* C8: every sample of every list handed to _write_wav_samples lies in
\* [-32768, 32767], and so does every sample of every stem file.
C8_WrittenSamplesInRange ==
    /\ \A i \in 1..Len(writeArgs) : InRange16(writeArgs[i])
    /\ \A r \in Roles : InRange16(files[r].samples)

C8_Witness ==
    /\ pc = "fill"
    /\ cleanupOutcome = "cleaned"
    /\ alpha = -1000
    /\ Len(writeArgs) = 1
    /\ \E i \in 1..Len(cleanupIO.cleaned) :
          /\ 10 * cleanupIO.g_orig[i]
               - alpha * (cleanupIO.p_extra[i] + cleanupIO.o_extra[i])
             > 10 * Int16Max
          /\ writeArgs[1][i] = Int16Max

\* C9: when the cleanup flag read at line 156 is false, the step from the end
\* of the refinement stage goes straight to completeness-fill: no engine call
\* is made and no stem file changes.
C9_CleanupOnlyWhenEnabled ==
    [][ (pc = "cleanup_gate" /\ ~cleanup_enabled')
            => /\ pc' = "fill"
               /\ engineCalls' = engineCalls
               /\ files' = files
               /\ cleanupOutcome' = "not_entered" ]_vars

C9_Witness ==
    /\ pc = "fill"
    /\ ~cleanup_enabled
    /\ cleanupOutcome = "not_entered"
    /\ refineOutcome = "refined"
    /\ Len(engineCalls) = 2

\* C10: after a successful cleanup guitar.wav holds the peak normalization of
\* clamp16(round(target[i] - alpha * (leaked_b[i] + leaked_c[i]))) over the
\* common length; for target = [1000], leaked_b = [100], leaked_c = [50] and
\* alpha = 0.6 the value before normalization is 910.
C10_ScaledSubtract ==
    (pc = "fill" /\ cleanupOutcome = "cleaned") =>
        LET g == cleanupIO.g_orig
            b == cleanupIO.p_extra
            c == cleanupIO.o_extra
            n == Min3(Len(g), Len(b), Len(c))
            pre == [i \in 1..n |->
                      Clamp16(RoundHalfEven(10 * g[i] - alpha * (b[i] + c[i]), 10))]
        IN  /\ cleanupIO.cleaned = pre
            /\ files["guitar"].samples = normalize_16bit(pre)
            /\ (g = <<1000>> /\ b = <<100>> /\ c = <<50>> /\ alpha = 6)
                  => cleanupIO.cleaned = <<910>>

C10_Witness ==
    /\ pc = "fill"
    /\ cleanupOutcome = "cleaned"
    /\ alpha = 6
    /\ cleanupIO.g_orig = <<1000>>
    /\ cleanupIO.p_extra = <<100>>
    /\ cleanupIO.o_extra = <<50>>
    /\ cleanupIO.cleaned = <<910>>
    /\ files["guitar"].samples = <<32767>>

\* C11: in both optional stages, when the three loaded signals do not all have
\* the same (channel count, sample rate), the step that follows skips the
\* stage: it logs a warning of the stage and leaves every stem file as it was.
C11_FormatMismatchSkips ==
    [][ /\ (RefineLoaded /\ ~SameFormat3(RefineInputs[1], RefineInputs[2],
                                         RefineInputs[3]))
            => /\ files' = files
               /\ stderr' = Append(stderr, "warn_refine_format")
        /\ (CleanupLoaded /\ ~SameFormat3(CleanupInputs[1], CleanupInputs[2],
                                          CleanupInputs[3]))
            => /\ files' = files
               /\ Len(stderr') = Len(stderr) + 1
               /\ stderr'[Len(stderr')] \in {"warn_cleanup_engine",
                                             "warn_cleanup_exception",
                                             "warn_cleanup_format"} ]_vars

\* C12: a run of any of the three scripts ends either with one success token
\* and exit status 0, or with a message on the error stream, no success token
\* and a non-zero exit status: the return code of the engine call that failed,
\* and 1 when no engine call returned non-zero.
C12_ExitContract ==
    /\ [](/\ stdout <= 1
          /\ stdout = 1 => pc = "exited" /\ exitCode = 0
          /\ pc = "exited" =>
                \/ stdout = 1 /\ exitCode = 0
                \/ stdout = 0 /\ exitCode # 0 /\ stderr # <<>>)
    /\ [][ (pc # "exited" /\ pc' = "exited") =>
              \/ /\ stdout' = 1
                 /\ exitCode' = 0
                 /\ stderr' = stderr
              \/ /\ stdout' = 0
                 /\ Len(stderr') = Len(stderr) + 1
                 /\ exitCode' = IF result # 0 THEN result ELSE 1 ]_vars

C12_Witness ==
    /\ pc = "exited"
    /\ files = NoFiles4
    /\ exitCode = 2
    /\ stdout = 0
    /\ stderr = <<"engine_diagnostic">>

\* C13: when a run of the 4-stem script reports success and the track folder
\* it resolved held only vocals.wav and drums.wav, output_dir holds all four
\* stem files, bass.wav and other.wav with the content of vocals.wav.
C13_FourStemFill ==
    (pc = "exited" /\ stdout = 1
        /\ tree.tracks[FindTrack4(tree)] = FourTrack0)
    => /\ \A r \in FourRoles : isfile(files[r])
       /\ files["bass"] = files["vocals"]
       /\ files["other"] = files["vocals"]

\* C14: when a run of the lead/backing script has printed the success token,
\* lead.wav and backing.wav both exist or a PartialResultWarning was reported.
C14_LeadBackingOrWarned ==
    (pc = "exited" /\ stdout = 1) =>
        \/ isfile(files["lead"]) /\ isfile(files["backing"])
        \/ Printed("PartialResultWarning")

\* C15: the completeness-fill step leaves every stem file that exists as it
\* is and gives every missing stem the content of the first stem, in the order
\* guitar, piano, other, whose file exists.
C15_FillFromFirstExisting ==
    [][ pc = "fill" =>
          LET have == {i \in 1..Len(melody_stems) : isfile(files[melody_stems[i]])}
          IN  /\ \A r \in Roles : isfile(files[r]) => files'[r] = files[r]
              /\ have = {} => files' = files
              /\ \A i \in have :
                    (\A j \in have : i <= j) =>
                        \A r \in Roles :
                            ~isfile(files[r]) => files'[r] = files[melody_stems[i]]
      ]_vars

C15_Witness ==
    /\ pc = "print"
    /\ fillDone
    /\ refineOutcome = "not_entered"
    /\ NonEmpty(files["guitar"])
    /\ files["piano"] = files["guitar"]
    /\ files["other"] = files["guitar"]

\* the indices of the per-track folders of t that hold the file marker
MarkerDirs(t, marker) == {i \in 1..Len(t.tracks) : isfile(t.tracks[i][marker])}
\* the step copies the stems of per-track folder i of the tree over dir
CopiedFrom(i, roles) ==
    files' = [r \in roles |->
                IF isfile(tree.tracks[i][r]) THEN tree.tracks[i][r] ELSE files[r]]
LastError == stderr'[Len(stderr')]

\* C16 as stated: after a successful engine call the step resolves a folder
\* that holds the marker file whenever the output tree has one, under any
\* model folder name, and fails with output-not-found only when it has none.
C16_ResolvesAnyName ==
    [][ /\ (pc = "primary_ret" /\ result = 0) =>
              IF MarkerDirs(tree, "guitar") = {}
              THEN pc' = "exited" /\ exitCode' = 1
              ELSE /\ pc' = "refine_gate"
                   /\ \E i \in MarkerDirs(tree, "guitar") : CopiedFrom(i, Roles)
        /\ (pc = "four_ret" /\ result = 0) =>
              IF MarkerDirs(tree, "vocals") = {}
              THEN pc' = "exited" /\ exitCode' = 1
              ELSE /\ pc' = "four_print"
                   /\ \E i \in MarkerDirs(tree, "vocals") : CopiedFrom(i, FourRoles)
      ]_vars

\* C16 amended: after a successful engine call the step resolves the first
\* listed folder holding the marker file among the folders of the directory
\* named after the model (htdemucs_6s, htdemucs), whatever the name of that
\* per-track folder; it fails with status 1 when the directory of that name
\* is missing or none of its folders holds the marker file, even if a
\* directory of another name holds one.
C16_ResolvesUnderModelDir ==
    [][ /\ (pc = "primary_ret" /\ result = 0) =>
              LET hits == IF tree.top = "htdemucs_6s"
                          THEN MarkerDirs(tree, "guitar") ELSE {}
              IN  IF hits = {}
                  THEN /\ pc' = "exited" /\ exitCode' = 1 /\ files' = files
                       /\ LastError = IF tree.top = "htdemucs_6s"
                                      THEN "no_outputs" ELSE "no_model_dir"
                  ELSE /\ pc' = "refine_gate"
                       /\ \E i \in hits : /\ \A j \in hits : i <= j
                                          /\ CopiedFrom(i, Roles)
        /\ (pc = "four_ret" /\ result = 0) =>
              LET hits == IF tree.top = "htdemucs"
                          THEN MarkerDirs(tree, "vocals") ELSE {}
              IN  IF hits = {}
                  THEN /\ pc' = "exited" /\ exitCode' = 1 /\ files' = files
                       /\ LastError = IF tree.top = "htdemucs"
                                      THEN "no_outputs" ELSE "no_model_dir"
                  ELSE /\ pc' = "four_print"
                       /\ \E i \in hits : /\ \A j \in hits : i <= j
                                          /\ CopiedFrom(i, FourRoles)
      ]_vars

C16_Witness ==
    /\ pc = "four_print"
    /\ tree = MkTree("htdemucs", <<DecoyTrack4, FourTrack0>>)
    /\ files["vocals"] = StemFile(1)
    /\ files["drums"] = StemFile(2)

\* lines 92-120 have run
Classified == pc \in {"voc_classified", "voc_fill", "voc_print"}
                 \/ (pc = "exited" /\ stdout = 1 /\ separated # <<>>)

\* C17: when the heuristics populate lead and backing, the final assignment
\* is theirs and names two different files; when they leave a role empty and
\* at least two output files exist, the final assignment is the first file
\* for lead and the second for backing, whatever the heuristics matched; and
\* the copies made to lead.wav and backing.wav follow the final assignment.
C17_ClassifierAssignment ==
    Classified =>
        /\ (heuristic[1] # None /\ heuristic[2] # None) =>
              /\ lead_src = heuristic[1]
              /\ backing_src = heuristic[2]
              /\ lead_src # backing_src
        /\ ((heuristic[1] = None \/ heuristic[2] = None)
               /\ Len(output_files) >= 2) =>
              /\ lead_src = output_files[1]
              /\ backing_src = output_files[2]
        /\ (pc # "voc_classified" /\ lead_src # None /\ backing_src # None) =>
              /\ files["lead"] = Output(lead_src)
              /\ files["backing"] = Output(backing_src)
              /\ files["lead"] # files["backing"]

C17_Witness ==
    /\ pc = "voc_fill"
    /\ output_files = <<"song_(Instrumental).wav", "stem_1.wav">>
    /\ heuristic = <<None, "song_(Instrumental).wav">>
    /\ lead_src = "song_(Instrumental).wav"
    /\ backing_src = "stem_1.wav"
    /\ files["lead"] = Output("song_(Instrumental).wav")
    /\ files["backing"] = Output("stem_1.wav")

\* C18: when a run has ended, on any exit path, no directory that an engine
\* call was given for its output is left on disk.
C18_NoWorkDirOutlivesRun ==
    pc = "exited" => tmpDirs = {}

\* C19 as stated: after a successful refinement the new guitar.wav has
\* min(len(target), len(extracted)) samples and the new other.wav has
\* min(len(donor), len(extracted)) samples.
C19_PairwiseTrim ==
    (pc = "cleanup_gate" /\ refineOutcome = "refined") =>
        /\ Len(files["guitar"].samples) =
              Min2(Len(refineIO.g1), Len(refineIO.g2))
        /\ Len(files["other"].samples) =
              Min2(Len(refineIO.o1), Len(refineIO.g2))

\* C19 amended: after a successful refinement the new guitar.wav and the new
\* other.wav both have min(len(target), len(donor), len(extracted)) samples.
C19_CommonTrim ==
    (pc = "cleanup_gate" /\ refineOutcome = "refined") =>
        LET n == Min3(Len(primarySnap["guitar"].samples),
                      Len(primarySnap["other"].samples), Len(refineIO.g2))
        IN  /\ Len(files["guitar"].samples) = n
            /\ Len(files["other"].samples) = n

C19_Witness ==
    /\ pc = "cleanup_gate"
    /\ refineOutcome = "refined"
    /\ Len(refineIO.g1) = 2
    /\ Len(refineIO.o1) = 1
    /\ Len(refineIO.g2) = 2
    /\ Len(files["guitar"].samples) = 1
    /\ Len(files["other"].samples) = 1

\* C20: for an input WAV of n frames at rate sr > 0, once the padding step
\* has run without a warning: if n / sr < 10 the engine is given padded.wav,
\* which holds the n frames of the input followed by frames of zeros, 10 * sr
\* frames in all, in the format of the input; otherwise it is given the input
\* file. A failure while padding is a warning and the engine is given the
\* input file. The input file is never changed.
C20_PadShortInput ==
    /\ [](pc \in {"voc_padded", "voc_separated", "voc_classified"} =>
            LET n == Len(input.frames)
                total == MIN_DURATION_SEC * input.sr
            IN  /\ (input.kind # "wav" \/ padded.kind = "corrupt") =>
                      Printed("warn_pad")
                /\ Printed("warn_pad") => to_process = "input_path"
                /\ (~Printed("warn_pad") /\ input.sr > 0) =>
                      IF n < total
                      THEN /\ to_process = "padded"
                           /\ padded.kind = "wav"
                           /\ padded.nch = input.nch
                           /\ padded.sampw = input.sampw
                           /\ padded.sr = input.sr
                           /\ Len(padded.frames) = total
                           /\ \A i \in 1..n : padded.frames[i] = input.frames[i]
                           /\ \A i \in (n + 1)..total : padded.frames[i] = 0
                      ELSE to_process = "input_path")
    /\ [][pc # "voc_start" => input' = input]_vars

C20_Witness ==
    /\ pc = "voc_separated"
    /\ input = Wav(1, 2, 2, 19)
    /\ to_process = "padded"
    /\ Len(padded.frames) = 20
    /\ padded.frames[19] = 19
    /\ padded.frames[20] = 0

\* C21: from the end of a successful primary pass to the end of the run the
\* file guitar.wav exists, whatever the refinement and cleanup stages did; so
\* completeness-fill finds a source file, and the success token is printed
\* only when guitar.wav, piano.wav and other.wav all exist.
C21_GuitarExistsToTheEnd ==
    /\ PrimarySucceeded => isfile(files["guitar"])
    /\ pc = "fill" => FillSrc(files) # 0
    /\ fillDone => \A r \in Roles : isfile(files[r])
    /\ stdout = 1 => fillDone /\ \A r \in Roles : isfile(files[r])

C21_Witness ==
    /\ pc = "exited"
    /\ stdout = 1
    /\ refineOutcome = "write_error"
    /\ cleanupOutcome = "load_error"
    /\ files["guitar"].kind = "empty"
    /\ primarySnap["piano"] = NoFile
    /\ isfile(files["piano"])

=============================================================================
